---- MODULE Spec2Model ----
(***************************************************************************)
(* Fortune's sweep-line Voronoi algorithm of                               *)
(* sem4/GeometricAlgoCS/ProgAssignment/new2 (voronoi.hh, voronoi.cpp).     *)
(*                                                                         *)
(* Numbers.  The program computes in double.  The model computes in exact  *)
(* real arithmetic on the numbers the program can produce from integer     *)
(* sites: a number is a triple <<a, b, r>> of rationals that stands for    *)
(* a + b * sqrt(r), and a rational is a pair <<n, d>> in lowest terms with *)
(* d > 0.  A rational with d = 0 stands for the result of a division by    *)
(* zero or of the square root of a negative number (inf / NaN).            *)
(***************************************************************************)
EXTENDS Integers, Sequences, FiniteSets, TLC

(***************************************************************************)
(* Bounds of the model.                                                    *)
(***************************************************************************)
\* Largest number of sites given to add_point before compute().
MaxSites == 5

\* The largest number of calls of check_circle_event in a row on one beachline.
MaxCalls == 2

\* The site coordinates that add_point draws from.
Coords == {0, 5, 10}

\* The points the caller draws from for a call of Segment::finish of its own.
CallerPoints == {[x |-> <<<<0, 1>>, <<0, 1>>, <<0, 1>>>>, y |-> <<<<0, 1>>, <<0, 1>>, <<0, 1>>>>],
                 [x |-> <<<<5, 1>>, <<0, 1>>, <<0, 1>>>>, y |-> <<<<5, 1>>, <<0, 1>>, <<0, 1>>>>]}

(***************************************************************************)
(* Rational arithmetic.                                                    *)
(***************************************************************************)
Abs(n) == IF n < 0 THEN -n ELSE n

Sgn(n) == IF n < 0 THEN -1 ELSE IF n > 0 THEN 1 ELSE 0

RECURSIVE GCD(_, _)
GCD(a, b) == IF b = 0 THEN a ELSE GCD(b, a % b)

\* The rational n / d in lowest terms; d = 0 gives the non-finite value.
Rat(n, d) ==
    IF d = 0 THEN <<0, 0>>
    ELSE LET g == GCD(Abs(n), Abs(d))
             s == IF d < 0 THEN -1 ELSE 1
         IN  <<s * (n \div g), s * (d \div g)>>

RInt(n) == <<n, 1>>

RNaN == <<0, 0>>

RFinite(p) == p[2] # 0

RAdd(p, q) ==
    IF p[2] = 0 \/ q[2] = 0 THEN RNaN
    ELSE LET g == GCD(p[2], q[2])
         IN  Rat(p[1] * (q[2] \div g) + q[1] * (p[2] \div g), (p[2] \div g) * q[2])

RNeg(p) == <<-p[1], p[2]>>

RSub(p, q) == RAdd(p, RNeg(q))

RMul(p, q) ==
    IF p[2] = 0 \/ q[2] = 0 THEN RNaN
    ELSE LET g1 == GCD(Abs(p[1]), q[2])
             g2 == GCD(Abs(q[1]), p[2])
         IN  IF p[1] = 0 \/ q[1] = 0 THEN <<0, 1>>
             ELSE <<(p[1] \div g1) * (q[1] \div g2), (p[2] \div g2) * (q[2] \div g1)>>

RInv(p) == IF p[2] = 0 \/ p[1] = 0 THEN RNaN ELSE Rat(p[2], p[1])

RDiv(p, q) == RMul(p, RInv(q))

RSgn(p) == Sgn(p[1])

\* -1, 0 or 1 as p < q, p = q, p > q (finite p and q).
RCmp(p, q) == RSgn(RSub(p, q))

RLe(p, q) == RFinite(p) /\ RFinite(q) /\ RCmp(p, q) <= 0

RLt(p, q) == RFinite(p) /\ RFinite(q) /\ RCmp(p, q) < 0

RMin(p, q) == IF RLt(q, p) THEN q ELSE p

RMax(p, q) == IF RLt(p, q) THEN q ELSE p

RECURSIVE ISqrtFrom(_, _)
ISqrtFrom(n, k) ==
    LET m == (k + n \div k) \div 2
    IN  IF m >= k THEN k ELSE ISqrtFrom(n, m)

\* The integer square root of n >= 0 (Newton's iteration from n).
ISqrt(n) == IF n <= 0 THEN 0 ELSE ISqrtFrom(n, n)

IsSquare(n) == n >= 0 /\ ISqrt(n) * ISqrt(n) = n

RIsSquare(p) == RFinite(p) /\ IsSquare(p[1]) /\ IsSquare(p[2])

RSqrt(p) == <<ISqrt(p[1]), ISqrt(p[2])>>

(***************************************************************************)
(* Numbers a + b * sqrt(r).                                                *)
(***************************************************************************)
NNaN == <<RNaN, <<0, 1>>, <<0, 1>>>>

NFinite(v) == RFinite(v[1])

\* The number a + b * sqrt(r), with a rational square root folded into a.
Num(a, b, r) ==
    IF ~RFinite(a) \/ ~RFinite(b) \/ ~RFinite(r) \/ RSgn(r) < 0 THEN NNaN
    ELSE IF RSgn(b) = 0 \/ RSgn(r) = 0 THEN <<a, <<0, 1>>, <<0, 1>>>>
    ELSE IF RIsSquare(r) THEN <<RAdd(a, RMul(b, RSqrt(r))), <<0, 1>>, <<0, 1>>>>
    ELSE <<a, b, r>>

NRat(p) == Num(p, <<0, 1>>, <<0, 1>>)

NInt(n) == NRat(RInt(n))

NIsRat(v) == NFinite(v) /\ RSgn(v[2]) = 0

NNeg(v) == IF NFinite(v) THEN <<RNeg(v[1]), RNeg(v[2]), v[3]>> ELSE NNaN

NAddR(v, p) == IF NFinite(v) THEN Num(RAdd(v[1], p), v[2], v[3]) ELSE NNaN

NMulR(v, p) == IF NFinite(v) THEN Num(RMul(v[1], p), RMul(v[2], p), v[3]) ELSE NNaN

NDivR(v, p) == IF RFinite(p) /\ RSgn(p) # 0 THEN NMulR(v, RInv(p)) ELSE NNaN

\* (a + b sqrt r)^2 = a^2 + b^2 r + 2 a b sqrt r
NSq(v) ==
    IF NFinite(v)
    THEN Num(RAdd(RMul(v[1], v[1]), RMul(RMul(v[2], v[2]), v[3])),
             RMul(RInt(2), RMul(v[1], v[2])), v[3])
    ELSE NNaN

\* The sign of t - 2 w sqrt(uv) for w in {-1, 0, 1} and u, v >= 0 (uv > 0 when w # 0).
SignT(t, w, uv) ==
    IF w = 0 THEN RSgn(t)
    ELSE IF w = 1
         THEN IF RSgn(t) <= 0 THEN -1
              ELSE RCmp(RMul(t, t), RMul(RInt(4), uv))
         ELSE IF RSgn(t) >= 0 THEN 1
              ELSE RCmp(RMul(RInt(4), uv), RMul(t, t))

\* The sign of d + s1 sqrt(u) + s2 sqrt(v), for s1, s2 in {-1, 0, 1}, u, v >= 0.
SignSum(d, s1, u, s2, v) ==
    LET t1 == IF RSgn(u) = 0 THEN 0 ELSE s1
        t2 == IF RSgn(v) = 0 THEN 0 ELSE s2
        sx == IF t1 = 0 THEN t2
              ELSE IF t2 = 0 THEN t1
              ELSE IF t1 = t2 THEN t1
              ELSE t1 * RCmp(u, v)
        sd == RSgn(d)
    IN  IF sx = 0 THEN sd
        ELSE IF sd = 0 \/ sd = sx THEN sx
        ELSE sd * SignT(RSub(RSub(RMul(d, d), u), v), t1 * t2, RMul(u, v))

\* -1, 0 or 1 as v < w, v = w, v > w (finite v and w).
NCmp(v, w) ==
    SignSum(RSub(v[1], w[1]),
            RSgn(v[2]), RMul(RMul(v[2], v[2]), v[3]),
            -RSgn(w[2]), RMul(RMul(w[2], w[2]), w[3]))

\* The double comparisons: every comparison with a NaN is false but !=.
NLe(v, w) == NFinite(v) /\ NFinite(w) /\ NCmp(v, w) <= 0

NLt(v, w) == NFinite(v) /\ NFinite(w) /\ NCmp(v, w) < 0

NEq(v, w) == NFinite(v) /\ NFinite(w) /\ NCmp(v, w) = 0

(***************************************************************************)
(* Geometry: Point, circle, intersection (voronoi.hh, voronoi.cpp).        *)
(* A site is a record [x, y] of integers; a computed point is a record     *)
(* [x, y] of numbers.                                                      *)
(***************************************************************************)
Sites == [x : Coords, y : Coords]

\* Point(double x = 0.0, double y = 0.0), of a site or of rationals.
Point(x, y) == [x |-> NRat(x), y |-> NRat(y)]

PointOf(s) == Point(RInt(s.x), RInt(s.y))

\* The order of the site queue: ascending x, ties by y.
PointGreater(p, q) == p.x > q.x \/ (p.x = q.x /\ p.y > q.y)

\* circle(a, b, c, &x, &o) without the test of line 205.
circle_any_turn(a, b, c) ==
    LET A == b.x - a.x
        B == b.y - a.y
        C == c.x - a.x
        D == c.y - a.y
        E == A * (a.x + b.x) + B * (a.y + b.y)
        F == C * (a.x + c.x) + D * (a.y + c.y)
        G == 2 * (A * (c.y - b.y) - B * (c.x - b.x))
        ox == Rat(D * E - B * F, G)
        oy == Rat(A * F - C * E, G)
        dx == RSub(RInt(a.x), ox)
        dy == RSub(RInt(a.y), oy)
    IN  IF G = 0
        THEN [ok |-> FALSE, x |-> NInt(0), o |-> Point(RInt(0), RInt(0))]
        ELSE [ok |-> TRUE,
              x  |-> Num(ox, RInt(1), RAdd(RMul(dx, dx), RMul(dy, dy))),
              o  |-> Point(ox, oy)]

\* circle(a, b, c, &x, &o): [ok, x, o], x and o as left by the code when ok.
circle(a, b, c) ==
    LET A == b.x - a.x
        B == b.y - a.y
        C == c.x - a.x
        D == c.y - a.y
        E == A * (a.x + b.x) + B * (a.y + b.y)
        F == C * (a.x + c.x) + D * (a.y + c.y)
        G == 2 * (A * (c.y - b.y) - B * (c.x - b.x))
        ox == Rat(D * E - B * F, G)
        oy == Rat(A * F - C * E, G)
        dx == RSub(RInt(a.x), ox)
        dy == RSub(RInt(a.y), oy)
    IN  IF (b.x - a.x) * (c.y - a.y) - (c.x - a.x) * (b.y - a.y) > 0
        THEN [ok |-> FALSE, x |-> NInt(0), o |-> Point(RInt(0), RInt(0))]
        ELSE IF G = 0
        THEN [ok |-> FALSE, x |-> NInt(0), o |-> Point(RInt(0), RInt(0))]
        ELSE [ok |-> TRUE,
              x  |-> Num(ox, RInt(1), RAdd(RMul(dx, dx), RMul(dy, dy))),
              o  |-> Point(ox, oy)]

\* The y of intersection(p0, p1, l), l rational.  In the general case the code
\* takes (-b - sqrt(b*b - 4*a*c)) / (2*a) with a = 1/z0 - 1/z1,
\* b = -2*(p0.y/z0 - p1.y/z1), c = (p0.y^2 + p0.x^2 - l^2)/z0 - (p1.y^2 + p1.x^2 - l^2)/z1.
\* With d2 = (p0.x - p1.x)^2 + (p0.y - p1.y)^2 the discriminant is
\*   b*b - 4*a*c = 4 * z0*z1 * d2 / (z0*z1)^2,
\* so sqrt(b*b - 4*a*c) / (2*a) = sqrt(z0*z1*d2) / (z1 - z0) when z0*z1 > 0 and is
\* the square root of a negative number when z0*z1 < 0; the root is kept in that
\* form, which has the same value and stays within TLC's integers.
intersection_y(p0, p1, l) ==
    IF p0.x = p1.x THEN NRat(Rat(p0.y + p1.y, 2))
    ELSE IF RInt(p1.x) = l THEN NInt(p1.y)
    ELSE IF RInt(p0.x) = l THEN NInt(p0.y)
    ELSE LET z0 == RMul(RInt(2), RSub(RInt(p0.x), l))
             z1 == RMul(RInt(2), RSub(RInt(p1.x), l))
             a  == RSub(RInv(z0), RInv(z1))
             b  == RMul(RInt(-2), RSub(RDiv(RInt(p0.y), z0), RDiv(RInt(p1.y), z1)))
             d2 == (p0.x - p1.x) * (p0.x - p1.x) + (p0.y - p1.y) * (p0.y - p1.y)
         IN  Num(RDiv(RNeg(b), RMul(RInt(2), a)),
                 RNeg(RInv(RSub(z1, z0))),
                 RMul(RMul(z0, z1), RInt(d2)))

intersection_p(p0, p1, l) ==
    IF p0.x = p1.x THEN p0
    ELSE IF RInt(p1.x) = l THEN p0
    ELSE IF RInt(p0.x) = l THEN p1
    ELSE p0

\* intersection, line 274: the divisor 2*p.x - 2*l.
plug_divisor(p, l) == RSub(RInt(2 * p.x), RMul(RInt(2), l))

\* intersection, line 274: y plugged back into the parabola of focus p.
\*   (p.x*p.x + (p.y-res.y)*(p.y-res.y) - l*l) / (2*p.x - 2*l)
plug_back(p, y, l) ==
    [x |-> NDivR(NAddR(NSq(NAddR(NNeg(y), RInt(p.y))),
                       RSub(RInt(p.x * p.x), RMul(l, l))),
                 plug_divisor(p, l)),
     y |-> y]

\* intersection(p0, p1, l): the breakpoint of the parabolas of p0 and p1, directrix l.
intersection(p0, p1, l) ==
    plug_back(intersection_p(p0, p1, l), intersection_y(p0, p1, l), l)

(***************************************************************************)
(* The heap.  Arcs, events and segments are shared_ptr objects; the model  *)
(* keeps each kind in an arena (a sequence in order of creation) and a     *)
(* pointer is an index into it, 0 for nullptr.  Every segment is pushed on *)
(* output_segments when it is made, so a SegmentPtr is an index into       *)
(* output_segments.                                                         *)
(*                                                                         *)
(* events is declared with std::greater<> on EventPtr, which compares the  *)
(* pointers (EventComparator is never used): its top is the pending event  *)
(* at the lowest address.  The model keeps the pending events in address   *)
(* order, top first, and an allocation may fall anywhere in that order.    *)
(***************************************************************************)
VARIABLES
    pc,                 \* where the caller is: "input", then inside compute()
    points,             \* the site queue, top first
    x_min, x_max, y_min, y_max,
    root,               \* ArcPtr
    arcs,               \* arena of Arc
    evs,                \* arena of Event
    events,             \* the circle queue: indices into evs, top first
    output_segments,    \* vector of Segment
    added,              \* history: the sites given to add_point
    log,                \* history: what the loops of compute() have handled, oldest first
    probe,              \* history: the last call made from outside compute()
    tick,               \* history: flips at every step of compute()
    sides               \* history: for each segment, the sites of the arcs it bounded when made

vars == <<pc, points, x_min, x_max, y_min, y_max, root, arcs, evs, events,
          output_segments, added, log, probe, tick, sides>>

\* Arc(pp, a, b)
Arc(pp, a, b) ==
    [p |-> pp, prev |-> a, next |-> b, event |-> 0,
     left_segment |-> 0, right_segment |-> 0]

\* Event(xx, pp, aa)
Event(xx, pp, aa) == [x |-> xx, p |-> pp, arc |-> aa, valid |-> TRUE]

\* Segment(p)
Segment(p) == [start |-> p, end |-> Point(RInt(0), RInt(0)), done |-> FALSE]

\* Segment::finish without the test of done.
finish_unguarded(segs, s, p) ==
    [segs EXCEPT ![s] = [@ EXCEPT !.end = p, !.done = TRUE]]

\* Segment::finish(p), on segment s of segs (the caller has tested s for null).
finish(segs, s, p) ==
    IF ~segs[s].done
    THEN [segs EXCEPT ![s] = [@ EXCEPT !.end = p, !.done = TRUE]]
    ELSE segs

\* q with x inserted so that k elements stay in front of it.
InsertAt(q, k, x) ==
    LET n == IF k > Len(q) THEN Len(q) ELSE k
    IN  SubSeq(q, 1, n) \o <<x>> \o SubSeq(q, n + 1, Len(q))

\* points.push(p) under std::greater<>: ascending order, smallest on top.
RECURSIVE PushPoint(_, _)
PushPoint(q, p) ==
    IF q = <<>> THEN <<p>>
    ELSE IF PointGreater(Head(q), p) THEN <<p>> \o q
    ELSE <<Head(q)>> \o PushPoint(Tail(q), p)

\* The arcs met from i along next, each once: the walk stops at nullptr or at
\* the first arc met a second time.
RECURSIVE Walk(_, _, _)
Walk(as, i, seen) ==
    IF i = 0 \/ i \in seen THEN <<>>
    ELSE <<i>> \o Walk(as, as[i].next, seen \cup {i})

Chain(as, r) == Walk(as, r, {})

\* The next-walk from r never reaches nullptr.
Cyclic(as, r) ==
    LET c == Chain(as, r) IN c # <<>> /\ as[c[Len(c)]].next # 0

\* intersect(p, i, &res) without the test of line 230.
intersect_unguarded(as, p, i) ==
    LET ip == as[i].p
        a  == IF as[i].prev # 0
              THEN intersection(as[as[i].prev].p, ip, RInt(p.x)).y
              ELSE NInt(0)
        b  == IF as[i].next # 0
              THEN intersection(ip, as[as[i].next].p, RInt(p.x)).y
              ELSE NInt(0)
        none == Point(RInt(0), RInt(0))
    IN  IF (as[i].prev = 0 \/ NLe(a, NInt(p.y)))
           /\ (as[i].next = 0 \/ NLe(NInt(p.y), b))
        THEN [ok |-> TRUE,
              res |-> Point(Rat(ip.x * ip.x + (ip.y - p.y) * (ip.y - p.y) - p.x * p.x,
                                2 * ip.x - 2 * p.x),
                            RInt(p.y))]
        ELSE [ok |-> FALSE, res |-> none]

\* intersect(p, i, &res): [ok, res].
intersect(as, p, i) ==
    LET ip == as[i].p
        a  == IF as[i].prev # 0
              THEN intersection(as[as[i].prev].p, ip, RInt(p.x)).y
              ELSE NInt(0)
        b  == IF as[i].next # 0
              THEN intersection(ip, as[as[i].next].p, RInt(p.x)).y
              ELSE NInt(0)
        none == Point(RInt(0), RInt(0))
    IN  IF ip.x = p.x THEN [ok |-> FALSE, res |-> none]
        ELSE IF (as[i].prev = 0 \/ NLe(a, NInt(p.y)))
                /\ (as[i].next = 0 \/ NLe(NInt(p.y), b))
        THEN [ok |-> TRUE,
              res |-> Point(Rat(ip.x * ip.x + (ip.y - p.y) * (ip.y - p.y) - p.x * p.x,
                                2 * ip.x - 2 * p.x),
                            RInt(p.y))]
        ELSE [ok |-> FALSE, res |-> none]

\* The program's heap as one value, for the operators that change it.  ret is
\* the value the last call returned; hang is set by a loop that cannot end.
Heap ==
    [root |-> root, arcs |-> arcs, evs |-> evs, events |-> events,
     segs |-> output_segments, ret |-> FALSE, hang |-> FALSE]

\* check_circle_event, lines 182-185: invalidate any old event.
invalidate_event(h, i, x0) ==
    LET e == h.arcs[i].event
    IN  [h EXCEPT !.evs = IF e # 0 /\ ~NEq(h.evs[e].x, x0)
                          THEN [h.evs EXCEPT ![e].valid = FALSE]
                          ELSE h.evs,
                  !.arcs = [h.arcs EXCEPT ![i].event = 0],
                  !.ret = FALSE]

\* check_circle_event, lines 194-200, without the test x > x0.
schedule_event_any_x(h, i, x0, k, c) ==
    IF c.ok
    THEN [h EXCEPT !.evs = Append(h.evs, Event(c.x, c.o, i)),
                   !.arcs = [h.arcs EXCEPT ![i].event = Len(h.evs) + 1],
                   !.events = InsertAt(h.events, k, Len(h.evs) + 1),
                   !.ret = TRUE]
    ELSE h

\* check_circle_event, lines 194-200, with c the result of circle().
schedule_event(h, i, x0, k, c) ==
    IF c.ok /\ NLt(x0, c.x)
    THEN [h EXCEPT !.evs = Append(h.evs, Event(c.x, c.o, i)),
                   !.arcs = [h.arcs EXCEPT ![i].event = Len(h.evs) + 1],
                   !.events = InsertAt(h.events, k, Len(h.evs) + 1),
                   !.ret = TRUE]
    ELSE h

\* check_circle_event, lines 187-200.
find_circle(h, i, x0, k) ==
    IF h.arcs[i].prev = 0 \/ h.arcs[i].next = 0 THEN h
    ELSE schedule_event(h, i, x0, k,
                        circle(h.arcs[h.arcs[i].prev].p, h.arcs[i].p,
                               h.arcs[h.arcs[i].next].p))

\* check_circle_event(i, x0) on heap h; k places a new event in the queue.
\* h.ret is the value returned.
check_circle_event(h, i, x0, k) ==
    find_circle(invalidate_event(h, i, x0), i, x0, k)

\* check_circle_event(i->prev, x0) and check_circle_event(i->next, x0).
check_prev(h, i, x0, k) == check_circle_event(h, h.arcs[i].prev, x0, k)

check_next(h, i, x0, k) == check_circle_event(h, h.arcs[i].next, x0, k)

\* The first arc of the walk ch that the parabola of p intersects, or 0.
RECURSIVE FirstHit(_, _, _)
FirstHit(as, ch, p) ==
    IF ch = <<>> THEN 0
    ELSE IF intersect(as, p, Head(ch)).ok THEN Head(ch)
    ELSE FirstHit(as, Tail(ch), p)

\* front_insert, lines 137-156, with one segment made for both boundaries of
\* the new arc.
split_link_shared(h, p, i, z, keep) ==
    LET as == h.arcs
        nx == as[i].next
        n1 == Len(as) + 1
        n2 == Len(as) + 2
        s1 == Len(h.segs) + 1
        asA == IF keep
               THEN [Append(as, Arc(as[i].p, i, nx)) EXCEPT ![nx].prev = n1, ![i].next = n1]
               ELSE [Append(as, Arc(as[i].p, i, 0)) EXCEPT ![i].next = n1]
        asC == [Append(asA, Arc(p, i, n1)) EXCEPT
                    ![n1].right_segment = as[i].right_segment,
                    ![n1].prev = n2, ![i].next = n2]
    IN  [h EXCEPT !.arcs = [asC EXCEPT ![i].right_segment = s1, ![n2].left_segment = s1,
                                       ![n1].left_segment = s1, ![n2].right_segment = s1],
                  !.segs = h.segs \o <<Segment(z)>>]

\* front_insert, lines 137-156: arc i is split at z around a new arc for p;
\* keep is the test of line 137.
split_link(h, p, i, z, keep) ==
    LET as == h.arcs
        nx == as[i].next
        n1 == Len(as) + 1          \* the second copy of arc i
        n2 == Len(as) + 2          \* the arc of p
        s1 == Len(h.segs) + 1
        s2 == Len(h.segs) + 2
        asA == IF keep
               THEN [Append(as, Arc(as[i].p, i, nx)) EXCEPT ![nx].prev = n1, ![i].next = n1]
               ELSE [Append(as, Arc(as[i].p, i, 0)) EXCEPT ![i].next = n1]
        asC == [Append(asA, Arc(p, i, n1)) EXCEPT
                    ![n1].right_segment = as[i].right_segment,
                    ![n1].prev = n2, ![i].next = n2]
    IN  [h EXCEPT !.arcs = [asC EXCEPT ![i].right_segment = s1, ![n2].left_segment = s1,
                                       ![n1].left_segment = s2, ![n2].right_segment = s2],
                  !.segs = h.segs \o <<Segment(z), Segment(z)>>]

\* front_insert, lines 159-161: the circle events of the new arc i and its neighbours.
split_checks(h, i, x0, k1, k2, k3) ==
    check_next(check_prev(check_circle_event(h, i, x0, k1), i, x0, k2), i, x0, k3)

\* front_insert, lines 135-163: the new parabola intersects arc i.
split_arc(h, p, i, k1, k2, k3) ==
    split_checks(split_link(h, p, i, intersect(h.arcs, p, i).res,
                            h.arcs[i].next # 0
                                /\ ~intersect(h.arcs, p, h.arcs[i].next).ok),
                 Len(h.arcs) + 2, NInt(p.x), k1, k2, k3)

\* front_insert, lines 167-177: p goes to the end of the list, after arc i.
append_arc(h, p, i, xmin) ==
    [h EXCEPT !.arcs = [Append(h.arcs, Arc(p, i, 0)) EXCEPT
                            ![i].next = Len(h.arcs) + 1,
                            ![i].right_segment = Len(h.segs) + 1,
                            ![Len(h.arcs) + 1].left_segment = Len(h.segs) + 1],
              !.segs = Append(h.segs,
                              Segment(Point(xmin, Rat(p.y + h.arcs[i].p.y, 2))))]

\* front_insert, after line 130, with i the arc found by the loop of line 133.
insert_at(h, p, i, xmin, k1, k2, k3) ==
    IF i # 0 THEN split_arc(h, p, i, k1, k2, k3)
    ELSE IF Cyclic(h.arcs, h.root) THEN [h EXCEPT !.hang = TRUE]
    ELSE append_arc(h, p, Chain(h.arcs, h.root)[Len(Chain(h.arcs, h.root))], xmin)

\* front_insert(p)
front_insert(h, p, xmin, k1, k2, k3) ==
    IF h.root = 0
    THEN [h EXCEPT !.root = 1, !.arcs = Append(h.arcs, Arc(p, 0, 0))]
    ELSE insert_at(h, p, FirstHit(h.arcs, Chain(h.arcs, h.root), p), xmin, k1, k2, k3)

\* process_event, lines 102-103: the segment that starts at the event's point.
new_vertex(h, e) == [h EXCEPT !.segs = Append(h.segs, Segment(h.evs[e].p))]

\* process_event, lines 107-114: arc a leaves the list; s is the new segment.
unlink_prev(h, a, s) ==
    IF h.arcs[a].prev # 0
    THEN [h EXCEPT !.arcs = [h.arcs EXCEPT ![h.arcs[a].prev].next = h.arcs[a].next,
                                           ![h.arcs[a].prev].right_segment = s]]
    ELSE h

unlink_next(h, a, s) ==
    IF h.arcs[a].next # 0
    THEN [h EXCEPT !.arcs = [h.arcs EXCEPT ![h.arcs[a].next].prev = h.arcs[a].prev,
                                           ![h.arcs[a].next].left_segment = s]]
    ELSE h

\* process_event, lines 117-118: the two edges of arc a end at q.
finish_left(h, a, q) ==
    IF h.arcs[a].left_segment # 0
    THEN [h EXCEPT !.segs = finish(h.segs, h.arcs[a].left_segment, q)]
    ELSE h

finish_right(h, a, q) ==
    IF h.arcs[a].right_segment # 0
    THEN [h EXCEPT !.segs = finish(h.segs, h.arcs[a].right_segment, q)]
    ELSE h

\* process_event, lines 121-122.
recheck_prev(h, a, x0, k) ==
    IF h.arcs[a].prev # 0 THEN check_prev(h, a, x0, k) ELSE h

recheck_next(h, a, x0, k) ==
    IF h.arcs[a].next # 0 THEN check_next(h, a, x0, k) ELSE h

\* process_event, lines 100-123, for the valid event e just popped, of arc a.
fire_event(h, e, a, k1, k2) ==
    recheck_next(
        recheck_prev(
            finish_right(
                finish_left(
                    unlink_next(unlink_prev(new_vertex(h, e), a, Len(h.segs) + 1),
                                a, Len(h.segs) + 1),
                    a, h.evs[e].p),
                a, h.evs[e].p),
            a, h.evs[e].x, k1),
        a, h.evs[e].x, k2)

\* process_event() that pops the event only when it is valid.
pop_event_valid_only(h, e, k1, k2) ==
    IF h.evs[e].valid
    THEN fire_event([h EXCEPT !.events = Tail(h.events)], e, h.evs[e].arc, k1, k2)
    ELSE h

\* process_event() without the test of valid.
pop_event_unchecked(h, e, k1, k2) ==
    fire_event([h EXCEPT !.events = Tail(h.events)], e, h.evs[e].arc, k1, k2)

\* process_event(), with e the event on top.
pop_event(h, e, k1, k2) ==
    IF h.evs[e].valid
    THEN fire_event([h EXCEPT !.events = Tail(h.events)], e, h.evs[e].arc, k1, k2)
    ELSE [h EXCEPT !.events = Tail(h.events)]

process_event(h, k1, k2) == pop_event(h, Head(h.events), k1, k2)

\* The segments after the loop of finish_edges has visited the arcs of ch.
RECURSIVE finish_loop(_, _, _, _)
finish_loop(as, segs, ch, l2) ==
    IF ch = <<>> THEN segs
    ELSE IF as[Head(ch)].next = 0 THEN segs
    ELSE finish_loop(as,
                     IF as[Head(ch)].right_segment # 0
                     THEN finish(segs, as[Head(ch)].right_segment,
                                 intersection(as[Head(ch)].p,
                                              as[as[Head(ch)].next].p, l2))
                     ELSE segs,
                     Tail(ch), l2)

\* finish_edges(), lines 280 and 285: l * 2.
far_sweep(xmin, xmax, ymin, ymax) ==
    RMul(RInt(2), RAdd(xmax, RAdd(RSub(xmax, xmin), RSub(ymax, ymin))))

\* finish_edges(), entered with a root: a cyclic list is walked for ever.
finish_edges(h, xmin, xmax, ymin, ymax) ==
    [h EXCEPT !.segs = finish_loop(h.arcs, h.segs, Chain(h.arcs, h.root),
                                   far_sweep(xmin, xmax, ymin, ymax)),
              !.hang = Cyclic(h.arcs, h.root)]

(***************************************************************************)
(* The caller: add_point any number of times, then compute().  Each        *)
(* iteration of the two loops of compute() is one step.                    *)
(***************************************************************************)
Init ==
    /\ pc = "input"
    /\ points = <<>>
    /\ x_min = RInt(0) /\ x_max = RInt(0) /\ y_min = RInt(0) /\ y_max = RInt(0)
    /\ root = 0
    /\ arcs = <<>>
    /\ evs = <<>>
    /\ events = <<>>
    /\ output_segments = <<>>
    /\ added = {}
    /\ log = <<>>
    /\ probe = <<>>
    /\ tick = FALSE
    /\ sides = <<>>

\* The heap h becomes the state; a loop that cannot end leaves compute() hung,
\* otherwise control goes to at.
Store(h, at) ==
    /\ root' = h.root
    /\ arcs' = h.arcs
    /\ evs' = h.evs
    /\ events' = h.events
    /\ output_segments' = h.segs
    /\ pc' = IF h.hang THEN "hang" ELSE at

\* add_point(p)
add_point(p) ==
    /\ pc = "input"
    /\ Len(points) < MaxSites
    /\ p \notin added              \* the caller gives a set of sites
    /\ added' = added \cup {p}
    /\ points' = PushPoint(points, p)
    /\ IF Len(points) = 0
       THEN /\ x_min' = RInt(p.x) /\ x_max' = RInt(p.x)
            /\ y_min' = RInt(p.y) /\ y_max' = RInt(p.y)
       ELSE /\ x_min' = RMin(x_min, RInt(p.x))
            /\ y_min' = RMin(y_min, RInt(p.y))
            /\ x_max' = RMax(x_max, RInt(p.x))
            /\ y_max' = RMax(y_max, RInt(p.y))
    /\ UNCHANGED <<pc, root, arcs, evs, events, output_segments, log, probe, tick, sides>>

\* compute(), lines 24-28: the margins.
compute_margins ==
    /\ pc = "input"
    /\ x_min' = RSub(x_min, RDiv(RAdd(RSub(x_max, x_min), RInt(1)), RInt(5)))
    /\ x_max' = RAdd(x_max, RDiv(RAdd(RSub(x_max, x_min), RInt(1)), RInt(5)))
    /\ y_min' = RSub(y_min, RDiv(RAdd(RSub(y_max, y_min), RInt(1)), RInt(5)))
    /\ y_max' = RAdd(y_max, RDiv(RAdd(RSub(y_max, y_min), RInt(1)), RInt(5)))
    /\ pc' = "main"
    /\ UNCHANGED <<points, root, arcs, evs, events, output_segments, added, log, probe, tick, sides>>

\* The test of line 32.
event_first ==
    /\ events # <<>>
    /\ NLe(evs[Head(events)].x, NInt(Head(points).x))

\* History: the sites of the arcs that hold segment s as left_segment or right_segment.
separated(as, s) ==
    {as[a].p : a \in {b \in 1..Len(as) : as[b].left_segment = s \/ as[b].right_segment = s}}

\* History: old extended to the n segments now made, each new one with the
\* sites it separates among the arcs as.
note_sides(old, as, n) ==
    [s \in 1..n |-> IF s <= Len(old) THEN old[s] ELSE separated(as, s)]

\* History: process_point() handled site p.
site_entry(p) == [kind |-> "site", x |-> NInt(p.x), p |-> p, e |-> 0, arc |-> 0]

\* History: process_event() handled event e, acting on it ("circle") or not ("skip").
event_entry(e) ==
    [kind |-> IF evs[e].valid THEN "circle" ELSE "skip",
     x |-> evs[e].x, p |-> arcs[evs[e].arc].p, e |-> e, arc |-> evs[e].arc]

\* process_point()
process_point ==
    \E k1 \in 0..Len(events), k2 \in 0..(Len(events) + 1), k3 \in 0..(Len(events) + 2) :
        /\ points' = Tail(points)
        /\ Store(front_insert(Heap, Head(points), x_min, k1, k2, k3), pc)
        /\ log' = Append(log, site_entry(Head(points)))
        /\ tick' = ~tick
        /\ sides' = note_sides(sides, arcs', Len(output_segments'))
        /\ UNCHANGED <<x_min, x_max, y_min, y_max, added, probe>>

\* process_event() as a step of a loop of compute().
event_step ==
    \E k1 \in 0..Len(events), k2 \in 0..Len(events) :
        /\ Store(process_event(Heap, k1, k2), pc)
        /\ log' = Append(log, event_entry(Head(events)))
        /\ tick' = ~tick
        /\ sides' = note_sides(sides, arcs', Len(output_segments'))
        /\ UNCHANGED <<points, x_min, x_max, y_min, y_max, added, probe>>

\* compute(), lines 31-37: one iteration of the main loop.
main_event ==
    /\ pc = "main" /\ points # <<>> /\ event_first
    /\ event_step

main_point ==
    /\ pc = "main" /\ points # <<>> /\ ~event_first
    /\ process_point

main_exit ==
    /\ pc = "main" /\ points = <<>>
    /\ pc' = "drain"
    /\ tick' = ~tick
    /\ UNCHANGED <<points, x_min, x_max, y_min, y_max, root, arcs, evs, events,
                   output_segments, added, log, probe, sides>>

\* compute(), lines 40-42: one iteration of the drain loop.
drain_event ==
    /\ pc = "drain" /\ events # <<>>
    /\ event_step

drain_exit ==
    /\ pc = "drain" /\ events = <<>>
    /\ pc' = "finish"
    /\ tick' = ~tick
    /\ UNCHANGED <<points, x_min, x_max, y_min, y_max, root, arcs, evs, events,
                   output_segments, added, log, probe, sides>>

\* compute(), line 44: finish_edges() on a beachline with a root, then return.
finish_rooted ==
    /\ pc = "finish" /\ root # 0
    /\ Store(finish_edges(Heap, x_min, x_max, y_min, y_max), "done")
    /\ tick' = ~tick
    /\ UNCHANGED <<points, x_min, x_max, y_min, y_max, added, log, probe, sides>>

\* compute(), line 44, with no root: line 283 reads root->next through a null
\* pointer.  The behaviour is undefined; the outcomes kept are the fault and
\* the loop that reads a null next and ends.
finish_null ==
    /\ pc = "finish" /\ root = 0
    /\ pc' \in {"crashed", "done"}
    /\ tick' = ~tick
    /\ UNCHANGED <<points, x_min, x_max, y_min, y_max, root, arcs, evs, events,
                   output_segments, added, log, probe, sides>>

\* After compute() the caller holds the segments of get_segments() and calls
\* Segment::finish(q) on one of them.
caller_finish ==
    /\ pc = "done"
    /\ \E s \in 1..Len(output_segments), q \in CallerPoints :
           /\ output_segments' = finish(output_segments, s, q)
           /\ probe' = [seg |-> s, q |-> q, before |-> output_segments[s]]
    /\ pc' = "used"
    /\ UNCHANGED <<points, x_min, x_max, y_min, y_max, root, arcs, evs, events,
                   added, log, tick, sides>>

Next ==
    \/ \E p \in Sites : add_point(p)
    \/ compute_margins
    \/ main_event
    \/ main_point
    \/ main_exit
    \/ drain_event
    \/ drain_exit
    \/ finish_rooted
    \/ finish_null
    \/ caller_finish

Spec == Init /\ [][Next]_vars

\* compute() is one sequential call: while it is in a loop or about to call
\* finish_edges it takes its next step.  Every such step flips tick, and one
\* is possible in each of these places, so the fairness is stated on tick.
Tick == pc \in {"main", "drain", "finish"} /\ tick' = ~tick

FairSpec == Spec /\ WF_tick(Tick)

(***************************************************************************)
(* check_circle_event on its own: a beachline of three arcs a, b, c in     *)
(* this order, for every triple of sites, and a call of                    *)
(* check_circle_event on the middle arc with any x0.                       *)
(***************************************************************************)
InitCircle ==
    /\ pc = "triple"
    /\ points = <<>>
    /\ x_min = RInt(0) /\ x_max = RInt(0) /\ y_min = RInt(0) /\ y_max = RInt(0)
    /\ root = 1
    /\ arcs \in {<<Arc(a, 0, 2), Arc(b, 1, 3), Arc(c, 2, 0)>> : a, b, c \in Sites}
    /\ evs = <<>>
    /\ events = <<>>
    /\ output_segments = <<>>
    /\ added = {}
    /\ log = <<>>
    /\ probe = <<>>
    /\ tick = FALSE
    /\ sides = <<>>

\* check_circle_event(i, x0) with i the middle arc; the history keeps x0, the
\* result of circle() on the three sites and the value returned.
circle_check ==
    /\ pc = "triple"
    /\ \E x0 \in Coords :
           /\ Store(check_circle_event(Heap, 2, NInt(x0), 0), "checked")
           /\ probe' = [x0  |-> x0,
                        res |-> circle(arcs[1].p, arcs[2].p, arcs[3].p),
                        ret |-> check_circle_event(Heap, 2, NInt(x0), 0).ret]
    /\ UNCHANGED <<points, x_min, x_max, y_min, y_max, added, log, tick, sides>>

SpecCircle == InitCircle /\ [][circle_check]_vars

\* check_circle_event(i, x0) called on any of the three arcs, up to MaxCalls
\* times in a row; the history keeps the arguments, the value returned and the
\* heap before the call.
arc_check ==
    /\ pc \in {"triple", "rechecked"}
    /\ Len(log) < MaxCalls
    /\ \E i \in 1..3, x0 \in Coords, k \in 0..Len(events) :
           /\ Store(check_circle_event(Heap, i, NInt(x0), k), "rechecked")
           /\ probe' = [arc |-> i, x0 |-> NInt(x0), before |-> Heap,
                        ret |-> check_circle_event(Heap, i, NInt(x0), k).ret]
           /\ log' = Append(log, [kind |-> "check", x |-> NInt(x0), p |-> arcs[i].p,
                                  e |-> 0, arc |-> i])
    /\ UNCHANGED <<points, x_min, x_max, y_min, y_max, added, tick, sides>>

\* intersection(p0, p1, l) is about to be called on two distinct foci and a
\* directrix of the grid.
InitBreak ==
    /\ pc = "foci"
    /\ points = <<>>
    /\ x_min = RInt(0) /\ x_max = RInt(0) /\ y_min = RInt(0) /\ y_max = RInt(0)
    /\ root = 0
    /\ arcs = <<>>
    /\ evs = <<>>
    /\ events = <<>>
    /\ output_segments = <<>>
    /\ added = {}
    /\ log = <<>>
    /\ probe \in {[p0 |-> a, p1 |-> b, l |-> l] : a \in Sites, b \in Sites, l \in Coords}
    /\ probe.p0 # probe.p1
    /\ tick = FALSE
    /\ sides = <<>>

\* intersection(p0, p1, l); the history keeps the arguments, the point returned
\* and the divisor of line 274.
breakpoint ==
    /\ pc = "foci"
    /\ pc' = "breakpoint"
    /\ probe' = [p0 |-> probe.p0, p1 |-> probe.p1, l |-> probe.l,
                 res |-> intersection(probe.p0, probe.p1, RInt(probe.l)),
                 div |-> plug_divisor(intersection_p(probe.p0, probe.p1, RInt(probe.l)),
                                      RInt(probe.l))]
    /\ UNCHANGED <<points, x_min, x_max, y_min, y_max, root, arcs, evs, events,
                   output_segments, added, log, tick, sides>>

SpecBreak == InitBreak /\ [][breakpoint]_vars

\* Sites on both sides of the origin.
WideCoords == {-20, -15, 0, 5}

WideSites == [x : WideCoords, y : WideCoords]

\* add_point() on sites of either sign, then the margins of compute().
SpecBox == Init /\ [][(\E p \in WideSites : add_point(p)) \/ compute_margins]_vars

\* The program, together with check_circle_event called on its own on a
\* beachline of three arcs.
SpecCheck == (Init \/ InitCircle) /\ [][Next \/ arc_check]_vars

(***************************************************************************)
(* The claims.                                                             *)
(***************************************************************************)
SegIds == 1..Len(output_segments)

LogIds == 1..Len(log)

\* C1: a finished segment never changes again: whatever step is taken, and
\* whatever point a later finish is given, a segment with done = TRUE keeps
\* its start, end and done.
C1_FinishedIsTerminal ==
    [][\A s \in SegIds :
          output_segments[s].done => output_segments'[s] = output_segments[s]]_vars

\* C1 witness: the caller has called finish on a finished segment with a point
\* other than its end, and the segment is as it was.
C1_Refinished ==
    /\ pc = "used"
    /\ probe.before.done
    /\ probe.q # probe.before.end
    /\ output_segments[probe.seg] = probe.before

\* C2: nothing is handled twice ...
C2_Once ==
    /\ \A i, j \in LogIds :
          (log[i].kind = "site" /\ log[j].kind = "site" /\ log[i].p = log[j].p) => i = j
    /\ \A i, j \in LogIds :
          (log[i].kind # "site" /\ log[j].kind # "site" /\ log[i].e = log[j].e) => i = j

\* ... and when finish_edges is invoked both queues are empty, every site
\* added has been through process_point and every event ever scheduled has
\* been popped.
C2_AtFinish ==
    pc = "finish" =>
        /\ points = <<>>
        /\ events = <<>>
        /\ {log[j].p : j \in {i \in LogIds : log[i].kind = "site"}} = added
        /\ {log[j].e : j \in {i \in LogIds : log[i].kind # "site"}} = 1..Len(evs)

\* C2: for every set of sites the two loops of compute() end: compute() gets
\* to finish_edges, with every site processed exactly once, every scheduled
\* circle event popped exactly once and both queues empty.
C2_LoopsEnd ==
    /\ [](C2_Once /\ C2_AtFinish)
    /\ (pc = "main") ~> (pc = "finish")

\* C2 witness: finish_edges is about to run after a sweep that acted on a
\* circle event and discarded another.
C2_Swept ==
    /\ pc = "finish"
    /\ \E i, j \in LogIds : log[i].kind = "circle" /\ log[j].kind = "skip"

\* C3 (as claimed): compute() called with no site added never faults on the
\* absent beachline root, and returns with get_segments() empty.
C3_EmptyInputReturns ==
    (added = {} /\ pc # "input") => (pc # "crashed" /\ output_segments = <<>>)

TwoSites == {[x |-> 0, y |-> 0], [x |-> 10, y |-> 0]}

Open(s) == ~output_segments[s].done

\* C4 (as claimed): for the sites (0,0) and (10,0), get_segments() holds
\* exactly one segment when compute() has returned.
C4_OneSegment ==
    (added = TwoSites /\ pc = "done") => Len(output_segments) = 1

\* C4 (amended): for the sites (0,0) and (10,0) there is no segment before the
\* second insertion; the second insertion creates exactly two segments, both
\* open and starting at (5,0); no other segment is ever created, and when
\* compute() returns both are finished, at two different points.
C4_TwoHalfEdges ==
    (added = TwoSites /\ pc # "input") =>
        /\ Len(log) < 2 => output_segments = <<>>
        /\ Len(log) >= 2 =>
              /\ Len(output_segments) = 2
              /\ \A s \in SegIds : output_segments[s].start = Point(RInt(5), RInt(0))
        /\ (Len(log) >= 2 /\ pc \in {"main", "drain", "finish"}) =>
              \A s \in SegIds : Open(s)
        /\ pc = "done" =>
              /\ \A s \in SegIds : ~Open(s)
              /\ output_segments[1].end # output_segments[2].end

\* C4 witness: compute() has returned on the sites (0,0) and (10,0) with its
\* segments finished.
C4_TwoSitesDone ==
    /\ added = TwoSites
    /\ pc = "done"
    /\ \A s \in SegIds : ~Open(s)
    /\ output_segments # <<>>

\* C5 (as claimed): the sweep coordinates handled by the loops of compute(),
\* p.x of each site processed and e.x of each event popped, never decrease.
C5_SweepNeverGoesBack ==
    \A i, j \in LogIds : i < j => NLe(log[i].x, log[j].x)

\* The step taken handles one more site or event; Last is what it handled.
Stepped == Len(log') = Len(log) + 1

Last == log'[Len(log')]

Pending == {events[k] : k \in 1..Len(events)}

\* C6 (as claimed): while sites remain, the step handles a circle event iff
\* some pending event has trigger x <= the x of the first pending site, and
\* then it is a pending event of minimum trigger x; otherwise it handles the
\* first pending site.
C6_EarliestFirst ==
    [][(pc = "main" /\ points # <<>>) =>
          IF \E e \in Pending : NLe(evs[e].x, NInt(Head(points).x))
          THEN /\ Stepped /\ Last.kind # "site"
               /\ \A e \in Pending : NLe(Last.x, evs[e].x)
          ELSE /\ Stepped /\ Last.kind = "site"
               /\ Last.p = Head(points)]_vars

InChain(a) == \E k \in 1..Len(Chain(arcs, root)) : Chain(arcs, root)[k] = a

Fired(a) == \E i \in LogIds : log[i].kind = "circle" /\ log[i].arc = a

\* C7 (as claimed): the arc of a valid circle event that fires is at that
\* moment linked in the beachline, with a previous and a next neighbour, and
\* has not been unlinked by an earlier event.
C7_FiresOnLinkedArc ==
    [][(Stepped /\ Last.kind = "circle") =>
          /\ InChain(Last.arc)
          /\ arcs[Last.arc].prev # 0 /\ arcs[Last.arc].next # 0
          /\ ~Fired(Last.arc)]_vars

Column == added # {} /\ \A p, q \in added : p.x = q.x

\* C8: for n >= 1 sites of one x the k-th site processed leaves a chain of the
\* k arcs made so far, in order of insertion, and k - 1 segments, all starting
\* on x = x_min (the append of lines 167-177) and open until finish_edges; no
\* circle event is ever made; compute() neither hangs nor faults, and it
\* returns with n arcs in the chain and n - 1 segments, all finished.
C8_ColumnAppends ==
    /\ [](Column /\ pc # "input" =>
            /\ pc \notin {"hang", "crashed"}
            /\ evs = <<>> /\ events = <<>>
            /\ Len(arcs) = Len(log)
            /\ Chain(arcs, root) = [k \in 1..Len(log) |-> k]
            /\ \A k \in 1..Len(arcs) : arcs[k].p = log[k].p
            /\ Len(output_segments) = IF log = <<>> THEN 0 ELSE Len(log) - 1
            /\ \A s \in SegIds : output_segments[s].start.x = NRat(x_min)
            /\ pc \in {"main", "drain", "finish"} => \A s \in SegIds : Open(s)
            /\ pc \in {"done", "used"} =>
                  /\ Len(arcs) = Cardinality(added)
                  /\ \A s \in SegIds : ~Open(s))
    /\ (Column /\ pc = "main") ~> (pc = "done")

\* C8 witness: compute() has returned on three sites of one x.
C8_ColumnDone ==
    /\ Column /\ Cardinality(added) = 3
    /\ pc = "done"
    /\ Len(output_segments) = 2

Cross(a, b, c) == (b.x - a.x) * (c.y - a.y) - (c.x - a.x) * (b.y - a.y)

\* C9: for every triple (a, b, c) that is collinear or a left turn, circle()
\* returns false, and check_circle_event on the arc of b between the arcs of
\* a and c returns false, makes no event and leaves the arc without one.
C9_NoEventUnlessRightTurn ==
    (pc = "checked" /\ Cross(arcs[1].p, arcs[2].p, arcs[3].p) >= 0) =>
        /\ ~probe.res.ok
        /\ ~probe.ret
        /\ evs = <<>> /\ events = <<>>
        /\ arcs[2].event = 0

\* C9 witness: check_circle_event has been called on a left turn whose circle
\* lies beyond x0, and on return there is no event.
C9_LeftTurnChecked ==
    /\ pc = "checked"
    /\ Cross(arcs[1].p, arcs[2].p, arcs[3].p) > 0
    /\ circle_any_turn(arcs[1].p, arcs[2].p, arcs[3].p).ok
    /\ NLt(NInt(probe.x0), circle_any_turn(arcs[1].p, arcs[2].p, arcs[3].p).x)
    /\ events = <<>>

\* C10 (as claimed): when compute() returns on at least one site every segment
\* of get_segments() has done = TRUE.
C10_NoneLeftOpen ==
    (pc = "done" /\ added # {}) => \A s \in SegIds : ~Open(s)

\* q is at the same distance from the sites a and b: the squares of the two
\* distances differ by a term linear in q.
Equidistant(q, a, b) ==
    NEq(NMulR(q.x, RInt(2 * (b.x - a.x))),
        NAddR(NNeg(NMulR(q.y, RInt(2 * (b.y - a.y)))),
              RInt(b.x * b.x + b.y * b.y - a.x * a.x - a.y * a.y)))

\* Both ends of segment s are at the same distance from the sites it separated
\* when it was made.
Bisects(s) ==
    \A a, b \in sides[s] :
        /\ Equidistant(output_segments[s].start, a, b)
        /\ Equidistant(output_segments[s].end, a, b)

\* C11 (as claimed): when compute() has returned, the start and the end of every
\* finished segment are equidistant from the two sites whose arcs the segment
\* separated when it was made.
C11_EndsEquidistant ==
    pc = "done" => \A s \in SegIds : output_segments[s].done => Bisects(s)

\* C12: a step of process_event() on an event whose valid flag is false only
\* pops it: the beachline links, every arc's event and segment references, the
\* events and their flags, the output segments and the site queue stay as they
\* were, and nothing is pushed on the circle queue.
C12_SkipOnlyPops ==
    [][(Stepped /\ Last.kind = "skip") =>
           /\ events' = Tail(events)
           /\ root' = root /\ arcs' = arcs /\ evs' = evs
           /\ output_segments' = output_segments
           /\ points' = points]_vars

\* An invalidated event has been popped from a queue that held other events.
C12_Skipped ==
    \E i \in LogIds :
        /\ log[i].kind = "skip"
        /\ \E j \in LogIds : j > i /\ log[j].kind # "site"

\* The events in the circle queue whose valid flag is true.
ValidPending == {e \in Pending : evs[e].valid}

\* C13 (as claimed): while compute() runs, no two valid events of the circle
\* queue are for the same arc, and each of them is the event its arc refers to.
C13_OneValidEventPerArc ==
    pc \in {"main", "drain", "finish"} =>
        \A e \in ValidPending :
            /\ arcs[evs[e].arc].event = e
            /\ \A f \in ValidPending : evs[f].arc = evs[e].arc => f = e

\* The arcs reachable from r along next.
Linked(as, r) == {Chain(as, r)[k] : k \in 1..Len(Chain(as, r))}

\* The step is a front_insert that split an arc: it made two segments.
Split == Stepped /\ Last.kind = "site" /\ Len(output_segments') = Len(output_segments) + 2

\* C14 (as claimed): an arc of the beachline leaves it only in a step that fires
\* a valid circle event of that arc; a step of front_insert keeps every arc of
\* the beachline and adds two arcs when it splits, the arc of the new site and
\* a second arc of the split arc's site, and one arc otherwise.
C14_UnlinkedOnlyByEvent ==
    [][/\ \A a \in Linked(arcs, root) \ Linked(arcs', root') :
              Stepped /\ Last.kind = "circle" /\ Last.arc = a
       /\ (Stepped /\ Last.kind = "site") =>
              /\ Linked(arcs, root) \subseteq Linked(arcs', root')
              /\ Cardinality(Linked(arcs', root') \ Linked(arcs, root))
                     = IF Split THEN 2 ELSE 1
       /\ Split =>
              \E a, b \in Linked(arcs', root') \ Linked(arcs, root) :
                  /\ arcs'[a].p = Last.p
                  /\ \E i \in Linked(arcs, root) : arcs[i].p = arcs'[b].p /\ arcs'[i].next = a
                  /\ arcs'[a].next = b]_vars

\* The step fires a valid circle event.
Fires == Stepped /\ Last.kind = "circle"

\* After the step segment s is finished at point c.
EndsAt(s, c) ==
    s # 0 /\ output_segments'[s].done /\ output_segments'[s].end = c

\* After the step arc n shows a run of check_circle_event(n, x0): the event it
\* referred to is invalidated unless its x is x0, and it refers to no event or
\* to a new event of its own with trigger x beyond x0.
Rechecked(n, x0) ==
    /\ (arcs[n].event # 0 /\ ~NEq(evs[arcs[n].event].x, x0)) => ~evs'[arcs[n].event].valid
    /\ \/ arcs'[n].event = 0
       \/ /\ arcs'[n].event > Len(evs)
          /\ evs'[arcs'[n].event].arc = n
          /\ NLt(x0, evs'[arcs'[n].event].x)

\* The effect claimed of firing event e of arc a, with neighbours l and r and
\* new segment s.
FiredEffect(e, a, l, r, s) ==
    /\ Len(output_segments') = s
    /\ output_segments'[s] = Segment(evs[e].p)
    /\ EndsAt(arcs[a].left_segment, evs[e].p)
    /\ EndsAt(arcs[a].right_segment, evs[e].p)
    /\ l # 0 /\ r # 0
    /\ arcs'[l].next = r /\ arcs'[r].prev = l
    /\ arcs'[l].right_segment = s /\ arcs'[r].left_segment = s
    /\ Rechecked(l, evs[e].x) /\ Rechecked(r, evs[e].x)

\* C15 (as claimed): a step that fires a valid circle event of arc a appends one
\* open segment that starts at the circumcenter, finishes both boundary
\* segments of a at the circumcenter, links the two neighbours of a to each
\* other with the new segment as their shared boundary, and re-runs
\* check_circle_event on both neighbours at the event's x.
C15_FireEffect ==
    [][Fires => FiredEffect(Last.e, Last.arc, arcs[Last.arc].prev, arcs[Last.arc].next,
                            Len(output_segments) + 1)]_vars

\* The circle through the sites of arc i of heap h and its two neighbours.
ArcCircle(h, i) ==
    circle(h.arcs[h.arcs[i].prev].p, h.arcs[i].p, h.arcs[h.arcs[i].next].p)

\* check_circle_event(i, x0) has to schedule an event on heap h.
Due(h, i, x0) ==
    /\ h.arcs[i].prev # 0 /\ h.arcs[i].next # 0
    /\ ArcCircle(h, i).ok
    /\ NLt(x0, ArcCircle(h, i).x)

\* The call of check_circle_event(i, x0) on heap h returned ret and left the
\* state as the contract says.
Contract(h, i, x0, ret) ==
    /\ ret <=> Due(h, i, x0)
    /\ ret => /\ Len(evs) = Len(h.evs) + 1
              /\ arcs[i].event = Len(evs)
              /\ evs[Len(evs)] = Event(ArcCircle(h, i).x, ArcCircle(h, i).o, i)
              /\ \E k \in 0..Len(h.events) : events = InsertAt(h.events, k, Len(evs))
    /\ ~ret => /\ Len(evs) = Len(h.evs)
               /\ events = h.events
               /\ arcs[i].event = 0

\* check_circle_event has just returned from a call on its own.
Called == pc = "rechecked" => Contract(probe.before, probe.arc, probe.x0, probe.ret)

\* C16: check_circle_event(arc, x0) returns true exactly when arc has both
\* neighbours and circle() succeeds with x > x0, and then it has pushed one
\* event that arc refers to; otherwise it pushes nothing, returns false and
\* leaves the arc's event reference empty.  Every event pushed during a step
\* of compute() has a trigger x beyond the x of the site or event handled.
C16_EventsOnlyAhead ==
    /\ []Called
    /\ [][Stepped => \A k \in (Len(evs) + 1)..Len(evs') : NLt(Last.x, evs'[k].x)]_vars

\* check_circle_event returned true for an arc whose earlier event it
\* invalidated.
C16_Rescheduled ==
    /\ pc = "rechecked" /\ probe.ret
    /\ probe.before.arcs[probe.arc].event # 0
    /\ ~evs[probe.before.arcs[probe.arc].event].valid

\* C17 (as claimed): once compute() has padded the bounding box of at least one
\* site, the sweep coordinate 2 * l of finish_edges is strictly greater than
\* the x of every site.
C17_SweepBeyondSites ==
    (pc = "main" /\ added # {}) =>
        \A p \in added : RLt(RInt(p.x), far_sweep(x_min, x_max, y_min, y_max))

\* The foci and the directrix of the call are a degenerate case of intersection.
Degenerate ==
    probe.p0.x = probe.p1.x \/ probe.p0.x = probe.l \/ probe.p1.x = probe.l

\* C18 (as claimed): in a degenerate case intersection(p0, p1, l) divides by a
\* non-zero 2*p.x - 2*l and returns a finite point.
C18_NoDivisionByZero ==
    (pc = "breakpoint" /\ Degenerate) =>
        /\ RSgn(probe.div) # 0
        /\ NFinite(probe.res.x)

\* Arc a of the beachline and its next arc share one boundary segment.
SharedBoundary(a) ==
    /\ arcs[a].right_segment # 0
    /\ arcs[a].right_segment = arcs[arcs[a].next].left_segment

\* C19 (as claimed): between the steps of compute() every arc of the beachline
\* with a next arc shares its right_segment with that arc's left_segment, the
\* first arc has no left_segment, the last arc has no right_segment, and every
\* open segment of the output is such a shared boundary.
C19_SharedBoundaries ==
    (pc \in {"main", "drain", "finish"} /\ root # 0) =>
        /\ arcs[root].left_segment = 0
        /\ \A a \in Linked(arcs, root) :
               IF arcs[a].next # 0 THEN SharedBoundary(a) ELSE arcs[a].right_segment = 0
        /\ \A s \in SegIds :
               Open(s) => \E a \in Linked(arcs, root) :
                              arcs[a].next # 0 /\ arcs[a].right_segment = s

\* C20 (as claimed): between the steps of compute() the beachline is a
\* well-formed doubly-linked chain: root has no prev, the next arc of every arc
\* of the chain points back to it, the chain has no cycle, and the arc of every
\* valid event of the circle queue is in the chain.
C20_WellFormedChain ==
    (pc \in {"main", "drain", "finish"} /\ root # 0) =>
        /\ arcs[root].prev = 0
        /\ \A a \in Linked(arcs, root) :
               arcs[a].next # 0 => arcs[arcs[a].next].prev = a
        /\ ~Cyclic(arcs, root)
        /\ \A e \in ValidPending : evs[e].arc \in Linked(arcs, root)

====
